---- MODULE Spec2Model ----
(***************************************************************************)
(* Model of src/lib/github.js: the GitHub data-acquisition layer           *)
(* (credential resolution, profile lookup, repository listing, file        *)
(* fetching, code search, token donation) on top of a shared cache.        *)
(*                                                                         *)
(* JavaScript values are written as records tagged by their shape in the   *)
(* field t; a string-or-undefined slot holds Undefined for undefined.      *)
(* Every asynchronous function is cut into one action per synchronous      *)
(* run: from its entry (or the resumption after an await) to the next      *)
(* await or to its return.                                                 *)
(***************************************************************************)
EXTENDS Integers, Sequences, FiniteSets, TLC

\* ---------------------------------------------------------------- bounds
MaxSlots == 2
MaxRev == 1

\* ------------------------------------------------------ program constants
per_page == 100
baseRawUrl == "https://raw.githubusercontent.com"

\* ------------------------------------------------------------ JS values
Undefined == "<undefined>"
NoEntry == [t |-> "undefined"]
JSNull == [t |-> "null"]

\* `${v}` of a string-or-undefined value
Str(v) == IF v = Undefined THEN "undefined" ELSE v

\* !!v of a string-or-undefined value
Truthy(v) == v # Undefined /\ v # ""

\* -------------------------------------------------------- input domains
Tokens == {"t1", "t2"}
PrivTokens == {"t1"}
GuestTokens == {Undefined, "g"}
CallerTokens == {Undefined} \cup Tokens
KnownLogin == "a"
Logins == {KnownLogin, "repos_a"}
ProfileTypes == {"User", "Organization"}
Patterns == {"package.json"}
RepoCounts == {3, 100, 237}
NotFound == "Not Found"
TransportErrors == {"API rate limit exceeded"}

\* ------------------------------------------------------------ cache keys
profileCacheKey(login) == "profile_" \o login
publicCacheKey(login) == "profile_repos_" \o login
privateCacheKey(login, accessToken) ==
  "profile_repos_" \o login \o "_" \o Str(accessToken)
donatedKey == "donatedTokens"

CacheKeys ==
  {donatedKey}
    \cup {profileCacheKey(l) : l \in Logins}
    \cup {publicCacheKey(l) : l \in Logins}
    \cup {privateCacheKey(l, k) : l \in Logins, k \in CallerTokens}

\* ------------------------------------------------------- pure functions
Min(a, b) == IF a < b THEN a ELSE b

\* lodash pick of the seven kept fields, then of owner.login
compactRepo(repo) ==
  [id |-> repo.id, name |-> repo.name, owner |-> [login |-> repo.owner.login],
   full_name |-> repo.full_name, default_branch |-> repo.default_branch,
   private |-> repo.private, language |-> repo.language]

\* repos.map(compactRepo)
MapCompact(repos) == [i \in 1..Len(repos) |-> compactRepo(repos[i])]

\* the fork filter left out
FilterForksNone(repos) == repos

\* repos.filter(repo => repo.fork === false)
FilterForks(repos) == SelectSeq(repos, LAMBDA r : r.fork = FALSE)

\* the private filter left out
FilterPublicNone(repos) == repos

\* repos.filter(repo => repo.private === false)
FilterPublic(repos) == SelectSeq(repos, LAMBDA r : r.private = FALSE)

\* result.items.map(item => ({ repo: compactRepo(item.repository), path: item.path }))
MapFiles(items) ==
  [i \in 1..Len(items) |->
     [repo |-> compactRepo(items[i].repository), path |-> items[i].path]]

\* res => res.data (the rate-limit header is only logged)
getData(res) == res.data

\* Buffer.from(data.content, 'base64'): sextets in, octets out; 64 is '='
RECURSIVE Base64Decode(_)
Base64Decode(s) ==
  IF Len(s) < 4 THEN <<>>
  ELSE LET a == s[1]
           b == s[2]
           c == s[3]
           d == s[4]
           o1 == (a * 4 + b \div 16) % 256
           o2 == ((b % 16) * 16 + c \div 4) % 256
           o3 == ((c % 4) * 64 + d) % 256
           rest == Base64Decode(SubSeq(s, 5, Len(s)))
       IN  IF c = 64 THEN <<o1>>
           ELSE IF d = 64 THEN <<o1, o2>>
           ELSE <<o1, o2, o3>> \o rest

getContent(data) == Base64Decode(data.content)

\* getOctokit consulting the donated pool before the caller's token
getOctokitPoolFirst(accessToken, donatedTokens, guest) ==
  LET picked == IF Len(donatedTokens) > 0
                THEN {donatedTokens[i] : i \in 1..Len(donatedTokens)}
                ELSE {accessToken}
  IN  {IF Truthy(k) THEN k ELSE guest : k \in picked}

\* getOctokit preferring the guest token to the donated pool
getOctokitGuestFirst(accessToken, donatedTokens, guest) ==
  LET picked == IF Truthy(accessToken) THEN {accessToken}
                ELSE IF Truthy(guest) THEN {guest}
                ELSE IF Len(donatedTokens) > 0
                     THEN {donatedTokens[i] : i \in 1..Len(donatedTokens)}
                     ELSE {accessToken}
  IN  picked

\* Math.floor(Math.random() * n) ranges over the indices of the pool; the
\* result is the set of tokens the call may end up authenticated with
\* (Undefined: octokit.authenticate is not called)
getOctokit(accessToken, donatedTokens, guest) ==
  LET picked == IF Truthy(accessToken) THEN {accessToken}
                ELSE IF Len(donatedTokens) > 0
                     THEN {donatedTokens[i] : i \in 1..Len(donatedTokens)}
                     ELSE {accessToken}
  IN  {IF Truthy(k) THEN k ELSE guest : k \in picked}

\* `Can't fetch ${path} from ${relativeUrl}.`
relativeUrl(repo, path) ==
  "/" \o repo.full_name \o "/" \o Str(repo.default_branch) \o "/" \o path
rawErrorMessage(repo, path) ==
  "Can't fetch " \o path \o " from " \o relativeUrl(repo, path) \o "."

\* --------------------------------------------------- the remote provider
\* item i of the account's repository listing: every third one is a fork,
\* every third one is private
RawRepo(login, i) ==
  [id |-> i, name |-> "r", owner |-> [login |-> login, id |-> 7],
   full_name |-> login \o "/r", default_branch |-> "master",
   private |-> (i % 3 = 2), language |-> "js", fork |-> (i % 3 = 0),
   stargazers_count |-> i]

RemoteRepos(login, n) == [i \in 1..n |-> RawRepo(login, i)]

\* what a request authenticated with token may see
Visible(repos, token) ==
  IF token \in PrivTokens THEN repos
  ELSE SelectSeq(repos, LAMBDA r : r.private = FALSE)

\* page p of a listing at the requested page size
PageOf(list, page, size) ==
  SubSeq(list, (page - 1) * size + 1, Min(page * size, Len(list)))

ReposPage(login, n, token, page, size) ==
  PageOf(Visible(RemoteRepos(login, n), token), page, size)

SearchItems(login, n, token, pattern) ==
  LET vis == Visible(RemoteRepos(login, n), token)
  IN  [i \in 1..Len(vis) |-> [repository |-> vis[i], path |-> pattern, score |-> 1]]

SearchPage(login, n, token, pattern, page, size) ==
  [total_count |-> Len(SearchItems(login, n, token, pattern)),
   items |-> PageOf(SearchItems(login, n, token, pattern), page, size)]

\* the record the provider holds for the known login at revision rev
RemoteProfile(login, type, rev) ==
  [t |-> "profile", login |-> login, type |-> type, id |-> 7, bio |-> rev]

\* file bodies: "hi" as octets and as base64 sextets (aGk=)
FileText == <<104, 105>>
FileBase64 == <<26, 6, 36, 64>>
RawStatuses == {200, 404, 500}
RawBodies == {<<>>, FileText}

\* repository records handed to fetchFileFromRepo
FileRepo(branch, private) ==
  [id |-> 1, name |-> "r", owner |-> [login |-> KnownLogin],
   full_name |-> KnownLogin \o "/r", default_branch |-> branch,
   private |-> private, language |-> "js"]
FileRepos == {FileRepo(b, p) : b \in {Undefined, "master"}, p \in BOOLEAN}
Paths == {"package.json"}

\* ----------------------------------------------------------------- state
VARIABLES
  cache,     \* the shared cache: key -> stored value, NoEntry when absent
  guest,     \* process.env.GITHUB_GUEST_TOKEN
  remote,    \* what the provider holds for KnownLogin
  calls,     \* the invocations in progress, and the last finished one, per slot
  stable,    \* per login: the non-null values fetchProfile has returned
             \* since the last write of that login's profile entry
  first,     \* per login: the first non-null value fetchProfile returned
  donated    \* the tokens donateToken has been called with

vars == <<cache, guest, remote, calls, stable, first, donated>>

Calls == 1..MaxSlots

Pending == [t |-> "pending"]
Return(v) == [t |-> "return", v |-> v]
Throw(message) == [t |-> "throw", message |-> message]

IdleCall ==
  [op |-> "idle", pc |-> "idle", login |-> "", ptype |-> "",
   accessToken |-> Undefined, repo |-> [t |-> "none"], path |-> "",
   page |-> 0, acc |-> <<>>, pages |-> <<>>, log |-> <<>>, raised |-> <<>>,
   hit |-> FALSE, ret |-> Pending, seen |-> {}, first |-> NoEntry,
   writes |-> <<>>, had |-> {}, from |-> "", again |-> FALSE]

Init ==
  /\ cache = [k \in CacheKeys |-> NoEntry]
  /\ guest \in GuestTokens
  /\ remote \in [type : ProfileTypes, rev : {0}, count : RepoCounts]
  /\ calls = [s \in Calls |-> IdleCall]
  /\ stable = [l \in Logins |-> {}]
  /\ first = [l \in Logins |-> NoEntry]
  /\ donated = {}

\* cache.get('donatedTokens') || []
Pool == IF cache[donatedKey] = NoEntry THEN <<>> ELSE cache[donatedKey].toks

\* cache.has(key), cache.get(key)
has(key) == cache[key] # NoEntry
get(key) == cache[key]

\* fetchProfile never taking the cached profile
IsCachedNever(profile) == FALSE

\* if (profile): every value the core stores is an object or an array, so
\* only the undefined of a missing entry is falsy
IsCached(profile) == profile # NoEntry

Running == {s \in Calls : calls[s].pc \notin {"idle", "done"}}

\* a new invocation takes the lowest slot that holds no running one
CanStart(s) ==
  /\ s \notin Running
  /\ \A s2 \in 1..(s - 1) : s2 \in Running

Begin(op, login, ptype, accessToken) ==
  [IdleCall EXCEPT !.op = op, !.login = login, !.ptype = ptype,
                   !.accessToken = accessToken]

\* fetchWithOctokit up to the point where the request is on the wire: the
\* credential is resolved now, the response arrives in a later step
\* pool: the donated tokens getOctokit found when it chose the credential
Request(api, arg, page, size, token, pool) ==
  [api |-> api, arg |-> arg, page |-> page, per_page |-> size,
   token |-> token, pool |-> pool]

fetchWithOctokit(c, api, arg, page, size, token) ==
  [c EXCEPT !.log = Append(@, Request(api, arg, page, size, token, Pool))]

LastRequest(c) == c.log[Len(c.log)]

Finish(c, ret) == [c EXCEPT !.pc = "done", !.ret = ret]

\* cache.set(key, value)
Set(store, key, value) == [store EXCEPT ![key] = value]

\* the cache.set calls an invocation has made, in order
Wrote(c, key, value) ==
  [c EXCEPT !.writes = Append(@, [key |-> key, value |-> value])]

\* the history kept per login: a write of profile_<login> starts it afresh
Written(st, keys) ==
  [l \in Logins |-> IF profileCacheKey(l) \in keys THEN {} ELSE st[l]]
Returned(st, login, v) == [st EXCEPT ![login] = @ \cup {v}]
FirstOf(f, login, v) == IF f[login] = NoEntry THEN [f EXCEPT ![login] = v] ELSE f

Ok(data) == [ok |-> TRUE, res |-> [headers |-> [remaining |-> 1], data |-> data]]
Fail(message) == [ok |-> FALSE, message |-> message]

\* --------------------------------------------------------- fetchProfile
\* outcome of users.getForUser / orgs.get at the provider
UserOutcomes(login) ==
  {Fail(e) : e \in TransportErrors}
    \cup (IF login = KnownLogin
          THEN {Ok(RemoteProfile(login, remote.type, remote.rev))}
          ELSE {Fail(NotFound)})

OrgOutcomes(login) ==
  {Fail(e) : e \in TransportErrors}
    \cup (IF login = KnownLogin /\ remote.type = "Organization"
          THEN {Ok(RemoteProfile(login, remote.type, remote.rev))}
          ELSE {Fail(NotFound)})

\* entry: cache lookup, then the user lookup is sent
FetchProfileStart(s, login, accessToken) ==
  /\ CanStart(s)
  /\ LET c == [Begin("fetchProfile", login, "", accessToken)
                 EXCEPT !.seen = stable[login], !.first = first[login]]
         cacheKey == profileCacheKey(login)
         profile == get(cacheKey)
     IN  IF IsCached(profile)
         THEN /\ calls' = [calls EXCEPT ![s] =
                            Finish([c EXCEPT !.hit = TRUE], Return(profile))]
              /\ stable' = Returned(stable, login, profile)
              /\ first' = FirstOf(first, login, profile)
         ELSE /\ \E token \in getOctokit(accessToken, Pool, guest) :
                   calls' = [calls EXCEPT ![s] =
                     [fetchWithOctokit(c, "users.getForUser", login, 0, 0, token)
                        EXCEPT !.pc = "awaitUser"]]
              /\ UNCHANGED <<stable, first>>
  /\ UNCHANGED <<cache, guest, remote, donated>>

\* user && ..., if (org): a lookup that was rejected left undefined
Found(v) == v # NoEntry

\* a handler that rethrows
silentErrorRethrow(err) == Throw(err)

\* the handler logs the error and completes normally, with undefined
silentError(err) == Return(NoEntry)

\* promise.catch(handler), settled: the value, or what the handler makes
\* of the rejection
Settled(out) == IF out.ok THEN Return(getData(out.res)) ELSE silentError(out.message)

\* the user record taken whatever its type
IsUserAny(user) == Found(user)

\* user && user.type !== 'Organization'
IsUser(user) == Found(user) /\ user.type # "Organization"

\* what a lookup settled to, kept in acc
Got(c, settled) ==
  IF settled.t = "return" THEN [c EXCEPT !.acc = Append(@, settled.v)] ELSE c

\* resumed by the user lookup; may send the organization lookup
FetchProfileUser(s) ==
  /\ calls[s].pc = "awaitUser"
  /\ \E out \in UserOutcomes(calls[s].login) :
       LET user == Settled(out)
           c == Got(IF out.ok THEN calls[s]
                    ELSE [calls[s] EXCEPT !.raised = Append(@, out.message)],
                    user)
           cacheKey == profileCacheKey(c.login)
       IN  IF user.t = "throw"
           THEN /\ calls' = [calls EXCEPT ![s] = Finish(c, user)]
                /\ UNCHANGED <<cache, stable, first>>
           ELSE IF IsUser(user.v)
           THEN /\ cache' = Set(cache, cacheKey, user.v)
                /\ calls' = [calls EXCEPT ![s] =
                     Finish(Wrote(c, cacheKey, user.v), Return(user.v))]
                /\ stable' = Returned(Written(stable, {cacheKey}), c.login, user.v)
                /\ first' = FirstOf(first, c.login, user.v)
           ELSE /\ \E token \in getOctokit(c.accessToken, Pool, guest) :
                     calls' = [calls EXCEPT ![s] =
                       [fetchWithOctokit(c, "orgs.get", c.login, 0, 0, token)
                          EXCEPT !.pc = "awaitOrg"]]
                /\ UNCHANGED <<cache, stable, first>>
  /\ UNCHANGED <<guest, remote, donated>>

\* resumed by the organization lookup
FetchProfileOrg(s) ==
  /\ calls[s].pc = "awaitOrg"
  /\ \E out \in OrgOutcomes(calls[s].login) :
       LET org == Settled(out)
           c == Got(IF out.ok THEN calls[s]
                    ELSE [calls[s] EXCEPT !.raised = Append(@, out.message)],
                    org)
           cacheKey == profileCacheKey(c.login)
       IN  IF org.t = "throw"
           THEN /\ calls' = [calls EXCEPT ![s] = Finish(c, org)]
                /\ UNCHANGED <<cache, stable, first>>
           ELSE IF Found(org.v)
           THEN /\ cache' = Set(cache, cacheKey, org.v)
                /\ calls' = [calls EXCEPT ![s] =
                     Finish(Wrote(c, cacheKey, org.v), Return(org.v))]
                /\ stable' = Returned(Written(stable, {cacheKey}), c.login, org.v)
                /\ first' = FirstOf(first, c.login, org.v)
           ELSE /\ calls' = [calls EXCEPT ![s] = Finish(c, Return(JSNull))]
                /\ UNCHANGED <<cache, stable, first>>
  /\ UNCHANGED <<guest, remote, donated>>

\* ------------------------------------------------- fetchReposForProfile
ReposApi(ptype) ==
  IF ptype = "Organization" THEN "repos.getForOrg" ELSE "repos.getForUser"

ReposOutcomes(req) ==
  {Fail(e) : e \in TransportErrors}
    \cup {Ok(ReposPage(req.arg, remote.count, req.token, req.page, req.per_page))}

\* the invocation that held the slot before was the same listing and was
\* rejected after at least one page had arrived
FailedBefore(prev, ptype, accessToken) ==
  /\ prev.op = "fetchReposForProfile"
  /\ prev.pc = "done"
  /\ prev.ret.t = "throw"
  /\ prev.ptype = ptype
  /\ prev.accessToken = accessToken
  /\ prev.pages # <<>>

\* a call with a token falling back to the public entry
ServedFromAny(login, accessToken) ==
  IF Truthy(accessToken) /\ has(privateCacheKey(login, accessToken))
  THEN privateCacheKey(login, accessToken)
  ELSE IF has(publicCacheKey(login)) THEN publicCacheKey(login)
  ELSE ""

\* if (accessToken && cache.has(privateCacheKey)) ...
\* else if (!accessToken && cache.has(publicCacheKey)) ...
\* the key whose entry is returned, "" when the call has to fetch
ServedFrom(login, accessToken) ==
  IF Truthy(accessToken) /\ has(privateCacheKey(login, accessToken))
  THEN privateCacheKey(login, accessToken)
  ELSE IF ~Truthy(accessToken) /\ has(publicCacheKey(login))
  THEN publicCacheKey(login)
  ELSE ""

\* entry: the two cache lookups, then page 1 is requested
FetchReposStart(s, ptype, accessToken) ==
  /\ CanStart(s)
  /\ LET publicKey == publicCacheKey(KnownLogin)
         privateKey == privateCacheKey(KnownLogin, accessToken)
         c == [Begin("fetchReposForProfile", KnownLogin, ptype, accessToken)
                 EXCEPT !.had = {k \in {publicKey, privateKey} : has(k)},
                        !.again = FailedBefore(calls[s], ptype, accessToken)]
         key == ServedFrom(KnownLogin, accessToken)
     IN  IF key # ""
         THEN calls' = [calls EXCEPT ![s] =
                Finish([c EXCEPT !.hit = TRUE, !.from = key], Return(get(key)))]
         ELSE \E token \in getOctokit(accessToken, Pool, guest) :
                calls' = [calls EXCEPT ![s] =
                  [fetchWithOctokit(c, ReposApi(ptype), c.login, 1, per_page, token)
                     EXCEPT !.pc = "awaitRepos", !.page = 1]]
  /\ UNCHANGED <<cache, guest, remote, stable, first, donated>>

\* fetchReposForProfile without the private === false filter on the public list
ReposResultUnfiltered(repos, accessToken) ==
  LET all == MapCompact(FilterForks(repos))
  IN  [private |-> all, public |-> all, ret |-> all]

\* what fetchReposForProfile does once the last page is in: filter, compact,
\* write both cache entries, pick the return value
ReposResult(repos, accessToken) ==
  LET all == MapCompact(FilterForks(repos))
      publicRepos == FilterPublic(all)
  IN  [private |-> all, public |-> publicRepos,
       ret |-> IF Truthy(accessToken) THEN all ELSE publicRepos]

ReposValue(items) == [t |-> "repos", items |-> items]

\* only the entry the caller itself would read is written
ReposWritesOwn(login, accessToken, r) ==
  IF Truthy(accessToken)
  THEN <<[key |-> privateCacheKey(login, accessToken), value |-> ReposValue(r.private)]>>
  ELSE <<[key |-> publicCacheKey(login), value |-> ReposValue(r.public)]>>

\* cache.set(privateCacheKey, repos); cache.set(publicCacheKey, publicRepos)
ReposWrites(login, accessToken, r) ==
  <<[key |-> privateCacheKey(login, accessToken), value |-> ReposValue(r.private)],
    [key |-> publicCacheKey(login), value |-> ReposValue(r.public)]>>

\* the store after the cache.set calls ws, made in order
SetAll(store, ws) ==
  [k \in DOMAIN store |->
     LET at == {i \in 1..Len(ws) : ws[i].key = k}
     IN  IF at = {} THEN store[k]
         ELSE ws[CHOOSE i \in at : \A j \in at : j <= i].value]

\* the loop left after its first page
LastPageAlways(page, size) == TRUE

\* the loop stopping at a full page as well
LastPageAtMost(page, size) == Len(page) <= size

\* if (page.length < per_page) break;
LastPage(page, size) == Len(page) < size

\* a rejected page request leaving the pages already fetched in the cache
FetchReposPageKeepsPages(s) ==
  /\ calls[s].pc = "awaitRepos"
  /\ \E out \in ReposOutcomes(LastRequest(calls[s])) :
       IF ~out.ok
       THEN LET c == calls[s]
                ws == ReposWrites(c.login, c.accessToken,
                                  ReposResult(c.acc, c.accessToken))
            IN  /\ cache' = SetAll(cache, ws)
                /\ stable' = Written(stable, {ws[i].key : i \in 1..Len(ws)})
                /\ calls' = [calls EXCEPT ![s] =
                     Finish([c EXCEPT !.raised = Append(@, out.message),
                                      !.writes = @ \o ws],
                            Throw(out.message))]
       ELSE LET fetchRepos == getData(out.res)
                c == [calls[s] EXCEPT !.acc = @ \o fetchRepos,
                                      !.pages = Append(@, Len(fetchRepos))]
            IN  IF LastPage(fetchRepos, LastRequest(c).per_page)
                THEN LET r == ReposResult(c.acc, c.accessToken)
                         ws == ReposWrites(c.login, c.accessToken, r)
                     IN  /\ cache' = SetAll(cache, ws)
                         /\ stable' = Written(stable, {ws[i].key : i \in 1..Len(ws)})
                         /\ calls' = [calls EXCEPT ![s] =
                              Finish([c EXCEPT !.writes = @ \o ws],
                                     Return(ReposValue(r.ret)))]
                ELSE /\ \E token \in getOctokit(c.accessToken, Pool, guest) :
                          calls' = [calls EXCEPT ![s] =
                            [fetchWithOctokit(c, ReposApi(c.ptype), c.login,
                                              c.page + 1, per_page, token)
                               EXCEPT !.page = c.page + 1]]
                     /\ UNCHANGED <<cache, stable>>
  /\ UNCHANGED <<guest, remote, first, donated>>

\* one turn of the while (true) loop, resumed by the page's arrival
FetchReposPage(s) ==
  /\ calls[s].pc = "awaitRepos"
  /\ \E out \in ReposOutcomes(LastRequest(calls[s])) :
       IF ~out.ok
       THEN /\ calls' = [calls EXCEPT ![s] =
                 Finish([@ EXCEPT !.raised = Append(@, out.message)],
                        Throw(out.message))]
            /\ UNCHANGED <<cache, stable>>
       ELSE LET fetchRepos == getData(out.res)
                c == [calls[s] EXCEPT !.acc = @ \o fetchRepos,
                                      !.pages = Append(@, Len(fetchRepos))]
            IN  IF LastPage(fetchRepos, LastRequest(c).per_page)
                THEN LET r == ReposResult(c.acc, c.accessToken)
                         ws == ReposWrites(c.login, c.accessToken, r)
                     IN  /\ cache' = SetAll(cache, ws)
                         /\ stable' = Written(stable, {ws[i].key : i \in 1..Len(ws)})
                         /\ calls' = [calls EXCEPT ![s] =
                              Finish([c EXCEPT !.writes = @ \o ws],
                                     Return(ReposValue(r.ret)))]
                ELSE /\ \E token \in getOctokit(c.accessToken, Pool, guest) :
                          calls' = [calls EXCEPT ![s] =
                            [fetchWithOctokit(c, ReposApi(c.ptype), c.login,
                                              c.page + 1, per_page, token)
                               EXCEPT !.page = c.page + 1]]
                     /\ UNCHANGED <<cache, stable>>
  /\ UNCHANGED <<guest, remote, first, donated>>

\* ---------------------------------------------------- fetchFileFromRepo
TextValue(octets) == [t |-> "text", text |-> octets]

ContentOutcomes ==
  {Fail(e) : e \in TransportErrors \cup {NotFound}}
    \cup {Ok([content |-> FileBase64, encoding |-> "base64"])}

\* cross-fetch either rejects or resolves with a response of some status
RawOutcomes ==
  {Fail(e) : e \in TransportErrors}
    \cup {[ok |-> TRUE, response |-> [status |-> st, body |-> b]] :
            st \in RawStatuses, b \in RawBodies}

\* the branch test without the private flag
UseContentApiBranchOnly(repo) == ~Truthy(repo.default_branch)

\* any status but 404 taken for success
RawOkNot404(response) == response.status # 404

\* !repo.default_branch || repo.private === true
UseContentApi(repo) == ~Truthy(repo.default_branch) \/ repo.private = TRUE

\* response.status === 200
RawOk(response) == response.status = 200

\* entry: the branch on the repository record, then one request is sent
FetchFileStart(s, repo, path, accessToken) ==
  /\ CanStart(s)
  /\ LET c == [Begin("fetchFileFromRepo", repo.owner.login, "", accessToken)
                 EXCEPT !.repo = repo, !.path = path]
     IN  IF UseContentApi(repo)
         THEN \E token \in getOctokit(accessToken, Pool, guest) :
                calls' = [calls EXCEPT ![s] =
                  [fetchWithOctokit(c, "repos.getContent",
                                    repo.owner.login \o "/" \o repo.name \o "/" \o path,
                                    0, 0, token)
                     EXCEPT !.pc = "awaitContent"]]
         ELSE calls' = [calls EXCEPT ![s] =
                [c EXCEPT !.pc = "awaitRaw",
                          !.log = Append(@, Request("fetch",
                                    baseRawUrl \o relativeUrl(repo, path),
                                    0, 0, Undefined, <<>>))]]
  /\ UNCHANGED <<cache, guest, remote, stable, first, donated>>

\* .then(getContent) on the authenticated path
FetchFileContent(s) ==
  /\ calls[s].pc = "awaitContent"
  /\ \E out \in ContentOutcomes :
       calls' = [calls EXCEPT ![s] =
         IF out.ok
         THEN Finish(@, Return(TextValue(getContent(getData(out.res)))))
         ELSE Finish([@ EXCEPT !.raised = Append(@, out.message)],
                     Throw(out.message))]
  /\ UNCHANGED <<cache, guest, remote, stable, first, donated>>

\* .then(response => ...) on the raw-content path
FetchFileRaw(s) ==
  /\ calls[s].pc = "awaitRaw"
  /\ \E out \in RawOutcomes :
       calls' = [calls EXCEPT ![s] =
         IF ~out.ok
         THEN Finish([@ EXCEPT !.raised = Append(@, out.message)],
                     Throw(out.message))
         ELSE IF RawOk(out.response)
         THEN Finish([@ EXCEPT !.acc = <<out.response>>],
                     Return(TextValue(out.response.body)))
         ELSE Finish([@ EXCEPT !.acc = <<out.response>>],
                     Throw(rawErrorMessage(@.repo, @.path)))]
  /\ UNCHANGED <<cache, guest, remote, stable, first, donated>>

\* ----------------------------------------------- searchFilesFromProfile
\* searchParameters.q: the scope and the filename qualifier joined by ' '
SearchQuery(login, ptype, pattern) ==
  (IF ptype = "Organization" THEN "org:" ELSE "user:") \o login
    \o " " \o "filename:" \o pattern

SearchOutcomes(c) ==
  {Fail(e) : e \in TransportErrors}
    \cup {Ok(SearchPage(c.login, remote.count, LastRequest(c).token, c.path,
                        LastRequest(c).page, LastRequest(c).per_page))}

\* the invocation that held the slot before was the same search and returned
SearchedBefore(prev, ptype, pattern, accessToken) ==
  /\ prev.op = "searchFilesFromProfile"
  /\ prev.pc = "done"
  /\ prev.ret.t = "return"
  /\ prev.ptype = ptype
  /\ prev.path = pattern
  /\ prev.accessToken = accessToken

\* a search that hands out the result of the same search just completed
SearchStartMemo(s, ptype, pattern, accessToken) ==
  /\ CanStart(s)
  /\ LET c == [Begin("searchFilesFromProfile", KnownLogin, ptype, accessToken)
                 EXCEPT !.path = pattern,
                        !.again = SearchedBefore(calls[s], ptype, pattern, accessToken)]
     IN  IF c.again
         THEN calls' = [calls EXCEPT ![s] = Finish(c, calls[s].ret)]
         ELSE \E token \in getOctokit(accessToken, Pool, guest) :
                calls' = [calls EXCEPT ![s] =
                  [fetchWithOctokit(c, "search.code",
                                    SearchQuery(c.login, ptype, pattern), 1, per_page, token)
                     EXCEPT !.pc = "awaitSearch", !.page = 1]]
  /\ UNCHANGED <<cache, guest, remote, stable, first, donated>>

\* entry: the query is built and page 1 is requested
SearchStart(s, ptype, pattern, accessToken) ==
  /\ CanStart(s)
  /\ LET c == [Begin("searchFilesFromProfile", KnownLogin, ptype, accessToken)
                 EXCEPT !.path = pattern,
                        !.again = SearchedBefore(calls[s], ptype, pattern, accessToken)]
     IN  \E token \in getOctokit(accessToken, Pool, guest) :
           calls' = [calls EXCEPT ![s] =
             [fetchWithOctokit(c, "search.code",
                               SearchQuery(c.login, ptype, pattern), 1, per_page, token)
                EXCEPT !.pc = "awaitSearch", !.page = 1]]
  /\ UNCHANGED <<cache, guest, remote, stable, first, donated>>

FilesValue(files) == [t |-> "files", files |-> files]

SearchPageArrives(s) ==
  /\ calls[s].pc = "awaitSearch"
  /\ \E out \in SearchOutcomes(calls[s]) :
       IF ~out.ok
       THEN calls' = [calls EXCEPT ![s] =
              Finish([@ EXCEPT !.raised = Append(@, out.message)],
                     Throw(out.message))]
       ELSE LET searchFiles == MapFiles(getData(out.res).items)
                c == [calls[s] EXCEPT !.acc = @ \o searchFiles,
                                      !.pages = Append(@, Len(searchFiles))]
            IN  IF LastPage(searchFiles, LastRequest(c).per_page)
                THEN calls' = [calls EXCEPT ![s] =
                       Finish(c, Return(FilesValue(c.acc)))]
                ELSE \E token \in getOctokit(c.accessToken, Pool, guest) :
                       calls' = [calls EXCEPT ![s] =
                         [fetchWithOctokit(c, "search.code",
                            SearchQuery(c.login, c.ptype, c.path),
                            c.page + 1, per_page, token)
                            EXCEPT !.page = c.page + 1]]
  /\ UNCHANGED <<cache, guest, remote, stable, first, donated>>

\* ----------------------------------------------------------- donateToken
TokensValue(toks) == [t |-> "tokens", toks |-> toks]

\* the membership test left out
NotInAlways(toks, accessToken) == TRUE

\* donatedTokens.indexOf(accessToken) === -1
NotIn(toks, accessToken) == \A i \in 1..Len(toks) : toks[i] # accessToken

donateToken(accessToken) ==
  /\ donated' = donated \cup {accessToken}
  /\ IF NotIn(Pool, accessToken)
     THEN cache' = Set(cache, donatedKey, TokensValue(Append(Pool, accessToken)))
     ELSE UNCHANGED cache
  /\ UNCHANGED <<guest, remote, calls, stable, first>>

\* ------------------------------------------------------------ environment
\* the account's record is edited at the provider
RemoteChange ==
  /\ remote.rev < MaxRev
  /\ remote' = [remote EXCEPT !.rev = @ + 1]
  /\ UNCHANGED <<cache, guest, calls, stable, first, donated>>

\* one invocation of any exported function on a fresh process, with
\* donations arriving at any moment
Fresh == \A s \in Calls : calls[s].pc = "idle"

Next ==
  \/ \E login \in Logins, k \in CallerTokens :
       Fresh /\ FetchProfileStart(1, login, k)
  \/ FetchProfileUser(1)
  \/ FetchProfileOrg(1)
  \/ \E ptype \in ProfileTypes, k \in CallerTokens :
       Fresh /\ FetchReposStart(1, ptype, k)
  \/ FetchReposPage(1)
  \/ \E repo \in FileRepos, path \in Paths, k \in CallerTokens :
       Fresh /\ FetchFileStart(1, repo, path, k)
  \/ FetchFileContent(1)
  \/ FetchFileRaw(1)
  \/ \E ptype \in ProfileTypes, pattern \in Patterns, k \in CallerTokens :
       Fresh /\ SearchStart(1, ptype, pattern, k)
  \/ SearchPageArrives(1)
  \/ \E k \in Tokens : donateToken(k)

Spec == Init /\ [][Next]_vars

\* fetchProfile calls, overlapping and one after another, while the
\* account is edited at the provider
InitProfile == Init /\ guest = Undefined /\ remote.count = 3

NextProfile ==
  \/ \E s \in Calls, login \in Logins, k \in CallerTokens :
       FetchProfileStart(s, login, k)
  \/ \E s \in Calls : FetchProfileUser(s)
  \/ \E s \in Calls : FetchProfileOrg(s)
  \/ RemoteChange

SpecProfile == InitProfile /\ [][NextProfile]_vars

\* fetchReposForProfile calls, overlapping and one after another, with
\* donations arriving at any moment
InitRepos == Init /\ guest = Undefined /\ remote.type = "User" /\ remote.count = 3

NextRepos ==
  \/ \E s \in Calls, k \in CallerTokens : FetchReposStart(s, remote.type, k)
  \/ \E s \in Calls : FetchReposPage(s)
  \/ \E k \in Tokens : donateToken(k)

SpecRepos == InitRepos /\ [][NextRepos]_vars

\* two invocations at a time, of fetchProfile and of fetchReposForProfile,
\* racing to fill the cache for an organization whose listing takes several
\* pages and does not change
InitRace ==
  Init /\ guest = Undefined /\ remote.type = "Organization" /\ remote.count = 237

Racers == {s \in Calls : s <= 2}

NextRace ==
  \/ \E s \in Racers : FetchProfileStart(s, KnownLogin, Undefined)
  \/ \E s \in Racers : FetchProfileUser(s)
  \/ \E s \in Racers : FetchProfileOrg(s)
  \/ \E s \in Racers, k \in {Undefined} \cup PrivTokens :
       FetchReposStart(s, remote.type, k)
  \/ \E s \in Racers : FetchReposPage(s)

SpecRace == InitRace /\ [][NextRace]_vars

\* searchFilesFromProfile calls, overlapping and one after another, with
\* donations arriving at any moment
InitSearch == Init /\ guest = Undefined /\ remote.type = "User" /\ remote.count = 3

NextSearch ==
  \/ \E s \in Calls, pattern \in Patterns, k \in {Undefined} \cup PrivTokens :
       SearchStart(s, remote.type, pattern, k)
  \/ \E s \in Calls : SearchPageArrives(s)
  \/ \E k \in Tokens : donateToken(k)

SpecSearch == InitSearch /\ [][NextSearch]_vars

\* fetchProfile for any login next to fetchReposForProfile for the known
\* one, all sharing the one cache
InitKeys == Init /\ guest = Undefined /\ remote.type = "User" /\ remote.count = 3

NextKeys ==
  \/ \E s \in Calls, login \in Logins : FetchProfileStart(s, login, Undefined)
  \/ \E s \in Calls : FetchProfileUser(s)
  \/ \E s \in Calls : FetchProfileOrg(s)
  \/ \E s \in Calls, k \in {Undefined} \cup PrivTokens :
       FetchReposStart(s, remote.type, k)
  \/ \E s \in Calls : FetchReposPage(s)

SpecKeys == InitKeys /\ [][NextKeys]_vars

\* ============================================================ properties
Done(s, op) == calls[s].op = op /\ calls[s].pc = "done"
Returned_(s) == calls[s].ret.t = "return"
HasPrivate(items) == \E i \in 1..Len(items) : items[i].private = TRUE

\* C1: a fetchReposForProfile call made without a token never returns a
\* repository with private === true, from the cache or from a fresh fetch,
\* however it interleaves with calls that carry tokens.
C1_PublicCacheIsolation ==
  \A s \in Calls :
    (Done(s, "fetchReposForProfile") /\ ~Truthy(calls[s].accessToken)
       /\ Returned_(s))
      => /\ calls[s].ret.v.t = "repos"
         /\ ~HasPrivate(calls[s].ret.v.items)

\* an anonymous call served from the cache while a token-scoped entry holds
\* a private repository, next to an anonymous call that itself fetched one
AnonymousDone(s) ==
  /\ Done(s, "fetchReposForProfile")
  /\ ~Truthy(calls[s].accessToken)
  /\ Returned_(s)
  /\ calls[s].ret.v.items # <<>>

C1_Witness ==
  \E s1, s2 \in Calls :
    /\ AnonymousDone(s1)
    /\ calls[s1].hit
    /\ has(privateCacheKey(KnownLogin, "t1"))
    /\ HasPrivate(get(privateCacheKey(KnownLogin, "t1")).items)
    /\ AnonymousDone(s2)
    /\ ~calls[s2].hit
    /\ HasPrivate(calls[s2].acc)

\* C2: every API request of a call that carries a token is authenticated
\* with exactly that token, whatever the pool and the guest token hold.
C2_CallerTokenUsed ==
  \A s \in Calls :
    Truthy(calls[s].accessToken)
      => \A i \in 1..Len(calls[s].log) :
           calls[s].log[i].api # "fetch"
             => calls[s].log[i].token = calls[s].accessToken

\* a second page requested with the caller's token while the pool held
\* another token and a guest token was configured
C2_Witness ==
  \E s \in Calls :
    /\ calls[s].accessToken = "t2"
    /\ Len(calls[s].log) >= 2
    /\ calls[s].log[2].pool = <<"t1">>
    /\ calls[s].log[2].token = "t2"
    /\ guest = "g"

\* C3 as stated: once fetchProfile(L) has returned a non-null profile, a
\* later fetchProfile(L) returns that same value without a remote call.
C3_Original ==
  \A s \in Calls :
    (Done(s, "fetchProfile") /\ calls[s].first # NoEntry)
      => /\ calls[s].ret = Return(calls[s].first)
         /\ calls[s].log = <<>>

\* C3 amended: once fetchProfile(L) has returned a non-null profile, a later
\* fetchProfile(L) issues no remote call and returns the stored entry; it
\* equals every value returned since the entry was last written.
C3_CacheHit ==
  \A s \in Calls :
    Done(s, "fetchProfile")
      => /\ calls[s].first # NoEntry
            => calls[s].hit /\ calls[s].log = <<>> /\ Returned_(s)
         /\ calls[s].seen # {}
            => calls[s].hit /\ calls[s].seen = {calls[s].ret.v}

\* a hit by a call carrying a token, after a call returned the entry
C3_Witness ==
  \E s \in Calls :
    /\ Done(s, "fetchProfile")
    /\ calls[s].seen # {}
    /\ calls[s].accessToken = "t1"
    /\ calls[s].hit
    /\ calls[s].ret.v.bio = MaxRev

\* C4: when the user lookup and the organization lookup both fail,
\* fetchProfile returns null after exactly two requests, user then
\* organization; a failed user lookup is always followed by the
\* organization lookup.
C4_BothFail ==
  \A s \in Calls :
    calls[s].op = "fetchProfile"
      => /\ (calls[s].pc = "done" /\ Len(calls[s].raised) = 2)
            => /\ calls[s].ret = Return(JSNull)
               /\ Len(calls[s].log) = 2
               /\ calls[s].log[1].api = "users.getForUser"
               /\ calls[s].log[2].api = "orgs.get"
         /\ Len(calls[s].raised) >= 1
            => /\ Len(calls[s].log) = 2
               /\ calls[s].log[2].api = "orgs.get"
               /\ calls[s].ret.t # "throw"

\* a transport error on the user lookup, not-found on the organization one
C4_Witness ==
  \E s \in Calls :
    /\ Done(s, "fetchProfile")
    /\ calls[s].raised = <<"API rate limit exceeded", NotFound>>
    /\ calls[s].ret = Return(JSNull)

\* the pages the provider served to the requests of a call, concatenated
RECURSIVE ServedRepos(_, _)
ServedRepos(log, n) ==
  IF n = 0 THEN <<>>
  ELSE ServedRepos(log, n - 1)
         \o ReposPage(log[n].arg, remote.count, log[n].token, log[n].page, 100)

\* the positions of a listing that a caller with this token is to get
Kept(repos, accessToken) ==
  {i \in 1..Len(repos) :
     /\ repos[i].fork = FALSE
     /\ Truthy(accessToken) \/ repos[i].private = FALSE}

IsCompactOf(c, repo) ==
  /\ DOMAIN c = {"id", "name", "owner", "full_name", "default_branch",
                 "private", "language"}
  /\ c.id = repo.id
  /\ c.name = repo.name
  /\ c.owner = [login |-> repo.owner.login]
  /\ c.full_name = repo.full_name
  /\ c.default_branch = repo.default_branch
  /\ c.private = repo.private
  /\ c.language = repo.language

\* C5: on a cache miss fetchReposForProfile returns, in page order, exactly
\* the compact forms of the fetched repositories with fork === false: all
\* of them with a token, those with private === false without one.
C5_MissResult ==
  \A s \in Calls :
    (Done(s, "fetchReposForProfile") /\ ~calls[s].hit /\ Returned_(s))
      => LET c == calls[s]
             items == c.ret.v.items
             K == Kept(c.acc, c.accessToken)
         IN  /\ c.acc = ServedRepos(c.log, Len(c.log))
             /\ Len(items) = Cardinality(K)
             /\ \A i \in K :
                  IsCompactOf(items[Cardinality({k \in K : k <= i})], c.acc[i])

\* the provider served two non-forks, one of them private, and a fork to
\* an anonymous call, which returned the one public non-fork
C5_Witness ==
  \E s \in Calls :
    /\ Done(s, "fetchReposForProfile")
    /\ ~calls[s].hit
    /\ ~Truthy(calls[s].accessToken)
    /\ Returned_(s)
    /\ Len(calls[s].acc) = 3
    /\ HasPrivate(calls[s].acc)
    /\ \E i \in 1..3 : calls[s].acc[i].fork
    /\ Len(calls[s].ret.v.items) = 1

RECURSIVE Sum(_)
Sum(seq) == IF seq = <<>> THEN 0 ELSE Head(seq) + Sum(Tail(seq))

\* C6: the paginated calls request pages 1, 2, 3, ... of 100, one at a
\* time, go on only after a full page, stop at the first short page, and
\* accumulate the items of every page received.
C6_Pagination ==
  \A s \in Calls :
    calls[s].op \in {"fetchReposForProfile", "searchFilesFromProfile"}
      => LET c == calls[s]
             n == Len(c.pages)
         IN  /\ \A i \in 1..Len(c.log) :
                  c.log[i].page = i /\ c.log[i].per_page = 100
             /\ n <= Len(c.log)
             /\ Len(c.log) <= n + 1
             /\ \A i \in 1..n : i < Len(c.log) <=> c.pages[i] = 100
             /\ \A i \in 1..n : c.pages[i] <= 100
             /\ Len(c.acc) = Sum(c.pages)
             /\ (c.pc = "done" /\ Returned_(s) /\ ~c.hit)
                  => /\ n = Len(c.log)
                     /\ n >= 1
                     /\ c.pages[n] < 100
                     /\ c.op = "searchFilesFromProfile"
                          => Len(c.ret.v.files) = Sum(c.pages)

\* pages of 100, 100 and 37 items: three requests, 237 items
C6_Witness ==
  \E s \in Calls :
    /\ Done(s, "searchFilesFromProfile")
    /\ Returned_(s)
    /\ calls[s].pages = <<100, 100, 37>>
    /\ Len(calls[s].log) = 3
    /\ Len(calls[s].ret.v.files) = 237

\* C7: fetchFileFromRepo picks its path from the repository record alone:
\* the raw GET, and nothing else, when default_branch is set and private is
\* not true; the content call, and nothing else, otherwise.
C7_PathChoice ==
  \A s \in Calls :
    calls[s].op = "fetchFileFromRepo"
      => LET c == calls[s]
         IN  /\ Len(c.log) = 1
             /\ IF c.repo.default_branch # Undefined /\ c.repo.private # TRUE
                THEN /\ c.log[1].api = "fetch"
                     /\ c.log[1].token = Undefined
                     /\ c.log[1].arg =
                          "https://raw.githubusercontent.com/" \o c.repo.full_name
                            \o "/" \o c.repo.default_branch \o "/" \o c.path
                ELSE c.log[1].api = "repos.getContent"

\* the raw path taken by a call that carries a token, and a pool to hand
C7_Witness ==
  \E s \in Calls :
    /\ Done(s, "fetchFileFromRepo")
    /\ calls[s].accessToken = "t1"
    /\ Pool # <<>>
    /\ calls[s].log[1].api = "fetch"
    /\ Returned_(s)

\* C8: on the raw path the text is returned exactly when the status is
\* 200; any other status ends in the error naming the path and the URL,
\* after the one raw request.
C8_RawStatus ==
  \A s \in Calls :
    (Done(s, "fetchFileFromRepo") /\ calls[s].log[1].api = "fetch"
       /\ calls[s].acc # <<>>)
      => LET c == calls[s]
             response == c.acc[1]
         IN  /\ Len(c.log) = 1
             /\ IF response.status = 200
                THEN c.ret = Return(TextValue(response.body))
                ELSE c.ret = Throw("Can't fetch " \o c.path \o " from /"
                                     \o c.repo.full_name \o "/"
                                     \o c.repo.default_branch \o "/" \o c.path \o ".")

\* a 404 that came with a body
C8_Witness ==
  \E s \in Calls :
    /\ Done(s, "fetchFileFromRepo")
    /\ calls[s].acc # <<>>
    /\ calls[s].acc[1].status = 404
    /\ calls[s].acc[1].body = FileText
    /\ calls[s].ret.t = "throw"

\* C9: the pool holds every donated token exactly once, and no other.
C9_PoolIsSet ==
  \A k \in Tokens :
    Cardinality({i \in 1..Len(Pool) : Pool[i] = k})
      = IF k \in donated THEN 1 ELSE 0

\* both tokens donated while a listing was waiting for a page
C9_Witness ==
  /\ Pool = <<"t2", "t1">>
  /\ calls[1].pc = "awaitRepos"
  /\ calls[1].log[1].pool = <<"t2">>

\* C10: a transport error raised by a remote call reaches the caller of
\* the operation as it is, and ends the operation.
C10_ErrorsPropagate ==
  \A s \in Calls :
    \A i \in 1..Len(calls[s].raised) :
      calls[s].raised[i] \in TransportErrors
        => /\ calls[s].pc = "done"
           /\ calls[s].ret = Throw(calls[s].raised[i])

\* C11: the profile fetchProfile returns and caches matches the lookup that
\* resolved it. A record from the user lookup whose type is not
\* "Organization" is returned and cached at once, with no second request.
\* When the user lookup was rejected or gave an Organization-typed record,
\* orgs.get is requested, nothing is cached from the user lookup, and the
\* organization record, of type "Organization", is what is returned and
\* cached; with no organization record the call returns null and caches
\* nothing.
C11_TypeMatchesPath ==
  \A s \in Calls :
    LET c == calls[s]
        key == profileCacheKey(c.login)
    IN  (c.op = "fetchProfile" /\ ~c.hit /\ Len(c.acc) >= 1) =>
          IF c.acc[1] # NoEntry /\ c.acc[1].type # "Organization"
          THEN /\ c.pc = "done"
               /\ Len(c.log) = 1
               /\ c.ret = Return(c.acc[1])
               /\ c.writes = <<[key |-> key, value |-> c.acc[1]]>>
          ELSE /\ Len(c.log) = 2
               /\ c.log[2].api = "orgs.get"
               /\ c.pc # "done" => c.writes = <<>>
               /\ c.pc = "done" =>
                    /\ Len(c.acc) = 2
                    /\ IF c.acc[2] # NoEntry
                       THEN /\ c.acc[2].type = "Organization"
                            /\ c.ret = Return(c.acc[2])
                            /\ c.writes = <<[key |-> key, value |-> c.acc[2]]>>
                       ELSE /\ c.ret = Return(JSNull)
                            /\ c.writes = <<>>

\* the user lookup gave an Organization-typed record, the account was edited,
\* and the later organization record is the one returned and cached
C11_Witness ==
  \E s \in Calls :
    LET c == calls[s]
    IN  /\ Done(s, "fetchProfile")
        /\ Len(c.acc) = 2
        /\ c.acc[1] # NoEntry
        /\ c.acc[1].type = "Organization"
        /\ c.acc[2] # NoEntry
        /\ c.acc[2] # c.acc[1]
        /\ c.ret = Return(c.acc[2])
        /\ cache[profileCacheKey(c.login)] = c.acc[2]

\* C12: in every reachable state the value stored under profile_repos_<login>
\* is a repository list that holds only repositories with private === false,
\* whatever calls with and without tokens have written it and in what order.
C12_PublicEntryIsPublic ==
  LET entry == cache[publicCacheKey(KnownLogin)]
  IN  entry # NoEntry =>
        /\ entry.t = "repos"
        /\ ~HasPrivate(entry.items)

\* an anonymous call and a call whose token sees private repositories both
\* missed and overlapped; the public entry now holds what the
\* token-carrying call wrote last, next to its full private-keyed list
C12_Witness ==
  \E s1, s2 \in Calls :
    LET a == calls[s1]
        b == calls[s2]
    IN  /\ Done(s1, "fetchReposForProfile") /\ ~a.hit /\ Returned_(s1)
        /\ ~Truthy(a.accessToken)
        /\ Done(s2, "fetchReposForProfile") /\ ~b.hit /\ Returned_(s2)
        /\ b.accessToken \in PrivTokens
        /\ HasPrivate(b.ret.v.items)
        /\ Len(b.writes) = 2
        /\ b.writes[2].key = publicCacheKey(KnownLogin)
        /\ cache[publicCacheKey(KnownLogin)] = b.writes[2].value
        /\ cache[publicCacheKey(KnownLogin)].items # <<>>
        /\ HasPrivate(cache[privateCacheKey(KnownLogin, b.accessToken)].items)

\* C13: the cache lookup of fetchReposForProfile is partitioned by
\* authentication. A call with a token is served from the cache only from
\* the private key built from its own login and its own token, and fetches
\* when only the public entry exists; a call without a token is served only
\* from the public key. Every call writes only its own private key and the
\* public key, so the entry a call with token T1 is served was never
\* computed by a call with another token T2.
C13_LookupPartition ==
  \A s \in Calls :
    LET c == calls[s]
        publicKey == publicCacheKey(c.login)
        privateKey == privateCacheKey(c.login, c.accessToken)
    IN  c.op = "fetchReposForProfile" =>
          /\ c.hit =>
               /\ c.from = IF Truthy(c.accessToken) THEN privateKey ELSE publicKey
               /\ c.from \in c.had
               /\ c.ret = Return(cache[c.from])
               /\ c.log = <<>>
          /\ (Truthy(c.accessToken) /\ privateKey \notin c.had) =>
               /\ ~c.hit
               /\ Len(c.log) >= 1
          /\ (~Truthy(c.accessToken) /\ publicKey \notin c.had) =>
               /\ ~c.hit
               /\ Len(c.log) >= 1
          /\ \A i \in 1..Len(c.writes) :
               c.writes[i].key \in {privateKey, publicKey}
          /\ \A t \in Tokens \ {c.accessToken} :
               privateCacheKey(c.login, t) \notin {privateKey, publicKey}

\* a call with a token found the public entry and another token's entry but
\* not its own, and fetched; a later call with that token was served its
\* own entry, which differs from the other token's
C13_Witness ==
  \E s1, s2 \in Calls :
    LET a == calls[s1]
        b == calls[s2]
    IN  /\ a.op = "fetchReposForProfile" /\ b.op = "fetchReposForProfile"
        /\ a.accessToken = "t2"
        /\ a.had = {publicCacheKey(KnownLogin)}
        /\ has(privateCacheKey(KnownLogin, "t1"))
        /\ ~a.hit
        /\ Len(a.log) = 1
        /\ b.pc = "done" /\ b.hit
        /\ b.accessToken = "t1"
        /\ b.from = privateCacheKey(KnownLogin, "t1")
        /\ HasPrivate(b.ret.v.items)

\* the positions of the fetched repositories with fork === false, and those
\* of them with private === false
NonForks(repos) == {i \in 1..Len(repos) : repos[i].fork = FALSE}
PublicNonForks(repos) == {i \in NonForks(repos) : repos[i].private = FALSE}

\* items holds, in order, the compact forms of the repositories at K
IsListOf(items, repos, K) ==
  /\ Len(items) = Cardinality(K)
  /\ \A i \in K : IsCompactOf(items[Cardinality({k \in K : k <= i})], repos[i])

\* C14: a fetchReposForProfile call that missed the cache and returned has
\* made exactly two cache writes, with or without a token: first the
\* private-keyed entry with the whole filtered and compacted list, then the
\* public-keyed entry with its private === false part. So the public entry
\* exists whenever a token-scoped one does, and a call without a token that
\* finds the public entry is served from it without any request.
C14_BothEntriesWritten ==
  /\ \A s \in Calls :
       LET c == calls[s]
           publicKey == publicCacheKey(c.login)
           privateKey == privateCacheKey(c.login, c.accessToken)
       IN  /\ (Done(s, "fetchReposForProfile") /\ ~c.hit /\ Returned_(s)) =>
                /\ Len(c.writes) = 2
                /\ c.writes[1].key = privateKey
                /\ c.writes[1].value.t = "repos"
                /\ IsListOf(c.writes[1].value.items, c.acc, NonForks(c.acc))
                /\ c.writes[2].key = publicKey
                /\ c.writes[2].value.t = "repos"
                /\ IsListOf(c.writes[2].value.items, c.acc, PublicNonForks(c.acc))
           /\ (c.op = "fetchReposForProfile" /\ ~Truthy(c.accessToken)
                 /\ publicKey \in c.had) =>
                /\ c.pc = "done" /\ c.hit
                /\ c.from = publicKey
                /\ c.log = <<>>
  /\ \A t \in Tokens :
       has(privateCacheKey(KnownLogin, t)) => has(publicCacheKey(KnownLogin))

\* only calls with tokens had completed (the private key of a call without
\* a token was absent) when a call without a token found the public entry
\* and was served from it
C14_Witness ==
  \E s \in Calls :
    LET c == calls[s]
    IN  /\ Done(s, "fetchReposForProfile")
        /\ ~Truthy(c.accessToken)
        /\ c.had = {publicCacheKey(KnownLogin)}
        /\ c.hit
        /\ c.log = <<>>
        /\ c.ret.v.items # <<>>
        /\ \E t \in PrivTokens :
             HasPrivate(cache[privateCacheKey(KnownLogin, t)].items)

\* C15: the list a fetchReposForProfile call made without a token writes
\* under its private key (profile_repos_<login>_undefined) equals the list
\* it writes under the public key and holds no repository with
\* private === true, whichever credential its requests were sent with.
C15_AnonymousPrivateEntry ==
  \A s \in Calls :
    LET c == calls[s]
    IN  (Done(s, "fetchReposForProfile") /\ ~Truthy(c.accessToken)
           /\ ~c.hit /\ Returned_(s)) =>
          /\ Len(c.writes) = 2
          /\ c.writes[1].key = privateCacheKey(c.login, c.accessToken)
          /\ ~HasPrivate(c.writes[1].value.items)
          /\ c.writes[1].value = c.writes[2].value

\* C16: for a call that carries no token the credential is resolved anew
\* for each API request: with a non-empty donated pool the request uses one
\* member of the pool as it stood at that moment, and not the guest token;
\* with an empty pool it uses the guest token, and with no guest token it is
\* sent unauthenticated. Resolution always yields exactly one such outcome,
\* so every invocation that does not return at once has sent its request.
C16_CredentialFallback ==
  \A s \in Calls :
    LET c == calls[s]
    IN  (c.op # "idle" /\ ~Truthy(c.accessToken)) =>
          /\ \A i \in 1..Len(c.log) :
               LET r == c.log[i]
               IN  r.api # "fetch" =>
                     IF Len(r.pool) > 0
                     THEN /\ \E j \in 1..Len(r.pool) : r.token = r.pool[j]
                          /\ r.token # guest
                     ELSE r.token = guest
          /\ c.pc # "done" => Len(c.log) >= 1

\* one call without a token: its first request went out with the guest
\* token while the pool was empty, its second with a token donated since
C16_Witness ==
  \E s \in Calls :
    LET c == calls[s]
    IN  /\ ~Truthy(c.accessToken)
        /\ Len(c.log) >= 2
        /\ guest = "g"
        /\ c.log[1].pool = <<>>
        /\ c.log[1].token = "g"
        /\ c.log[2].pool # <<>>
        /\ c.log[2].token \in Tokens

\* the cache writes of one fetchReposForProfile call that runs alone against
\* the present account, its requests sent with credential cred
AloneWrites(accessToken, cred) ==
  ReposWrites(KnownLogin, accessToken,
    ReposResult(Visible(RemoteRepos(KnownLogin, remote.count), cred), accessToken))

\* the values such a call could leave under key
LeftBySingleCall(key) ==
  UNION {UNION {{AloneWrites(k, cred)[i].value :
                   i \in {j \in 1..2 : AloneWrites(k, cred)[j].key = key}} :
                cred \in getOctokit(k, Pool, guest)} :
         k \in CallerTokens}

\* C17: cache-population races are benign while the remote data stays the
\* same. Two calls for the same key that both miss both send their requests
\* and both write; whatever the order of the writes, each entry, once
\* present, holds what a single call would have left (the present profile
\* record, the complete list over all pages), and so does every value
\* served from the cache: no partial list is ever stored or read.
C17_BenignRaces ==
  /\ has(profileCacheKey(KnownLogin)) =>
       cache[profileCacheKey(KnownLogin)]
         = RemoteProfile(KnownLogin, remote.type, remote.rev)
  /\ \A k \in CallerTokens :
       has(privateCacheKey(KnownLogin, k)) =>
         cache[privateCacheKey(KnownLogin, k)]
           \in LeftBySingleCall(privateCacheKey(KnownLogin, k))
  /\ has(publicCacheKey(KnownLogin)) =>
       cache[publicCacheKey(KnownLogin)] \in LeftBySingleCall(publicCacheKey(KnownLogin))
  /\ \A s \in Calls :
       LET c == calls[s]
       IN  /\ (Done(s, "fetchReposForProfile") /\ c.hit) =>
                c.ret.v \in LeftBySingleCall(c.from)
           /\ (Done(s, "fetchReposForProfile") /\ ~c.hit /\ Returned_(s)) =>
                /\ Len(c.log) >= 1
                /\ Len(c.writes) = 2
                /\ \A i \in 1..2 :
                     c.writes[i].value \in LeftBySingleCall(c.writes[i].key)
           /\ (Done(s, "fetchProfile") /\ c.hit) =>
                c.ret = Return(RemoteProfile(KnownLogin, remote.type, remote.rev))
           /\ (Done(s, "fetchProfile") /\ ~c.hit /\ c.ret # Return(JSNull)) =>
                /\ Len(c.log) >= 1
                /\ c.writes = <<[key |-> profileCacheKey(KnownLogin),
                                 value |-> RemoteProfile(KnownLogin, remote.type,
                                                         remote.rev)]>>

\* two calls with the same token both missed, both fetched the three pages
\* and both wrote; the entry holds the complete list either of them wrote
C17_Witness ==
  \E s1, s2 \in Calls :
    LET a == calls[s1]
        b == calls[s2]
        key == privateCacheKey(KnownLogin, a.accessToken)
    IN  /\ s1 # s2
        /\ Done(s1, "fetchReposForProfile") /\ Done(s2, "fetchReposForProfile")
        /\ a.accessToken \in PrivTokens
        /\ b.accessToken = a.accessToken
        /\ ~a.hit /\ ~b.hit
        /\ a.pages = <<100, 100, 37>>
        /\ b.pages = <<100, 100, 37>>
        /\ Len(a.writes) = 2 /\ Len(b.writes) = 2
        /\ a.had = {} /\ b.had = {}
        /\ cache[key] = a.writes[1].value
        /\ cache[key] = b.writes[1].value
        /\ Len(cache[key].items) = 158

\* a step of a searchFilesFromProfile invocation: its entry or its
\* resumption by a page
SearchStep ==
  \E s \in Calls :
    /\ calls'[s] # calls[s]
    /\ calls'[s].op = "searchFilesFromProfile"

\* C18: searchFilesFromProfile is uncached. No step of a search changes the
\* cache, a search is never served from it and writes nothing to it, and
\* every search has sent at least one search.code request, also when the
\* same search (same profile, pattern and token) has just returned.
C18_SearchUncached ==
  /\ [](\A s \in Calls :
          calls[s].op = "searchFilesFromProfile" =>
            /\ ~calls[s].hit
            /\ calls[s].from = ""
            /\ calls[s].writes = <<>>
            /\ Len(calls[s].log) >= 1
            /\ \A i \in 1..Len(calls[s].log) : calls[s].log[i].api = "search.code")
  /\ [][SearchStep => cache' = cache]_vars

\* the same search had just returned, the cache held donated tokens, and
\* the search went to the provider again and returned the same files
C18_Witness ==
  \E s \in Calls :
    LET c == calls[s]
    IN  /\ Done(s, "searchFilesFromProfile")
        /\ c.again
        /\ Returned_(s)
        /\ c.ret.v.files # <<>>
        /\ Len(c.log) = 1
        /\ has(donatedKey)

\* C19: cache keys of different kinds, logins or tokens never coincide, so
\* an operation reads under its key only what was written for that kind of
\* entry and that login: fetchProfile returns null or a profile record of
\* the login it was asked for, never a repository list, and
\* fetchReposForProfile returns a repository list.
C19_NoKeyCollision ==
  \A s \in Calls :
    LET c == calls[s]
    IN  /\ (Done(s, "fetchProfile") /\ Returned_(s) /\ c.ret.v # JSNull) =>
             /\ c.ret.v.t = "profile"
             /\ c.ret.v.login = c.login
        /\ (Done(s, "fetchReposForProfile") /\ Returned_(s)) =>
             c.ret.v.t = "repos"

\* a step in which a fetchReposForProfile invocation ends with its call
\* rejected
ReposFailStep ==
  \E s \in Calls :
    /\ calls'[s] # calls[s]
    /\ calls'[s].op = "fetchReposForProfile"
    /\ calls'[s].pc = "done"
    /\ calls'[s].ret.t = "throw"

\* C20: a fetchReposForProfile call that fails leaves the cache unchanged.
\* When a page request is rejected the call ends with that rejection, the
\* step does not change the cache and the call has made no cache write, so
\* an entry never holds only the pages fetched before a failure; a call
\* that follows a failed one and misses the cache requests page 1 first and
\* builds its result from its own pages alone.
C20_FailureLeavesCache ==
  /\ [](\A s \in Calls :
          LET c == calls[s]
          IN  /\ (Done(s, "fetchReposForProfile") /\ c.ret.t = "throw") =>
                   /\ c.writes = <<>>
                   /\ c.raised # <<>>
                   /\ c.ret = Throw(c.raised[Len(c.raised)])
              /\ (c.op = "fetchReposForProfile" /\ c.again /\ ~c.hit) =>
                   /\ c.log[1].page = 1
                   /\ \A i \in 1..Len(c.log) : c.log[i].page = i
                   /\ (c.pc = "done" /\ c.ret.t = "return") =>
                        c.acc = ServedRepos(c.log, Len(c.log)))
  /\ [](\A k \in CallerTokens :
          has(privateCacheKey(KnownLogin, k)) =>
            cache[privateCacheKey(KnownLogin, k)].items
              = MapCompact(FilterForks(
                  Visible(RemoteRepos(KnownLogin, remote.count), k))))
  /\ [][ReposFailStep => cache' = cache]_vars

\* a call failed on its third page with two pages fetched and nothing
\* cached; the same call made again started from page 1, fetched all three
\* pages and cached the complete list
C20_Witness ==
  \E s \in Calls :
    LET c == calls[s]
    IN  /\ Done(s, "fetchReposForProfile")
        /\ c.again
        /\ c.had = {}
        /\ ~c.hit
        /\ Returned_(s)
        /\ c.pages = <<100, 100, 37>>
        /\ c.log[1].page = 1
        /\ Len(c.writes) = 2
        /\ cache[privateCacheKey(KnownLogin, c.accessToken)] = c.writes[1].value

====
